---- MODULE Spec2Model ----
(***************************************************************************)
(* Model of the Spider crawler of golwarc (crawlers/spider.go), of the two  *)
(* URL validators (libs.Validator.ValidateURL and crawlers.ValidateURL),   *)
(* of CrawlerService.CrawlAndStore, of RabbitMQClient and of               *)
(* KafkaConsumer.Consume.                                                  *)
(*                                                                         *)
(* Spec, SpecOne and SpecConc are the Spider and SpecFair is SpecOne under *)
(* a fair scheduler; SpecLocks is its Run() loop lock by lock; SpecCrawl   *)
(* follows one call of crawlURL step by step, SpecValidate hands a URL to  *)
(* the two validators, SpecService is CrawlAndStore with its cache and     *)
(* database, SpecRabbit the RabbitMQ client with its connection and        *)
(* channel, SpecConsume one call of its Consume, and SpecKafka one call of *)
(* KafkaConsumer.Consume.                                                  *)
(*                                                                         *)
(* Callers are goroutines that call Spider.Run(); every URL that Run()     *)
(* dispatches gets a worker goroutine.  Every read or write of a field of  *)
(* the Spider that the code does outside a lock is a step of its own, and  *)
(* a critical section (Lock ... Unlock) is one step, except in SpecLocks.  *)
(***************************************************************************)
EXTENDS Integers, Sequences, FiniteSets, Bags, TLC

\* ------------------------------------------------------------------ bounds
MaxPush == 2        \* AddStartURL calls in one behaviour
MaxClear == 1       \* ClearVisited calls in one behaviour
MaxConc == 1        \* largest argument of SetConcurrency
MaxCalls == 2       \* calls of crawlURL followed step by step
MaxStore == 2       \* calls of CrawlAndStore in one behaviour
MaxDial == 3        \* amqp.Dial calls of Reconnect in one behaviour
MaxAdds == 3        \* AddStartURL calls followed lock by lock
MaxDeliveries == 3  \* deliveries the broker sends to one Consume
MaxFetch == 3       \* messages produced to the topic of one KafkaConsumer.Consume

\* goroutines that call Run()
Callers == {1, 2}

\* ------------------------------------------------------- program constants
DefaultConcurrency == 5
DefaultDelay == 1
StatusOK == 200

\* status codes a server answers with
Statuses == {200, 204, 404}

\* ------------------------------------------------------------ URL validator
\* the URLs handed to the Spider
PublicURL == "https://example.com/path"
LoopbackURL == "http://127.0.0.1:8080/api"
SpiderURLs == {PublicURL, LoopbackURL}

\* the URLs handed to the validators
RawURLs ==
    { "", "example.com", "not-a-url", "http://", "http://[::1", "://example.com",
      "file:///etc/passwd", "javascript:alert(1)", "ftp://example.com",
      "http://localhost/admin", "http://127.0.0.1:8080/api",
      "http://[::1]/admin", "http://LOCALHOST/admin", "http://0.0.0.0/",
      "http://[::]/", "http://10.0.0.1/internal", "http://192.168.1.1/router",
      "http://172.16.0.1/internal", "http://172.31.255.255/internal",
      "http://172.32.0.1/", "http://169.254.169.254/latest",
      "http://[fe80::1]/", "http://example.com", "https://example.com/path",
      "https://example.com:8443/api", "https://api.example.com/v1/users",
      "HTTPS://Example.COM/", "http://10.example.com/",
      "http://192.168.example.com/", "http://172.16.example.com/",
      "http://multi.example.com/", "http://intranet.example.com/",
      "http://metadata.example.com/", "http://mcast.example.com/",
      "http://loop.example.com/", "http://nxdomain.invalid/" }

\* a URL that url.Parse takes: its Scheme (which Parse lower-cases), its Host
\* (with the port) and its Hostname()
Parsed(scheme, host, hostname) ==
    [ok |-> TRUE, scheme |-> scheme, host |-> host, hostname |-> hostname]

\* url.Parse, on the URLs of the model
ParseURL(raw) ==
    CASE raw \in {"", "example.com", "not-a-url"} -> Parsed("", "", "")
      [] raw = "http://" -> Parsed("http", "", "")
      [] raw = "file:///etc/passwd" -> Parsed("file", "", "")
      [] raw = "javascript:alert(1)" -> Parsed("javascript", "", "")
      [] raw = "ftp://example.com" -> Parsed("ftp", "example.com", "example.com")
      [] raw = "http://localhost/admin" -> Parsed("http", "localhost", "localhost")
      [] raw = "http://127.0.0.1:8080/api" ->
           Parsed("http", "127.0.0.1:8080", "127.0.0.1")
      [] raw = "http://[::1]/admin" -> Parsed("http", "[::1]", "::1")
      [] raw = "http://LOCALHOST/admin" -> Parsed("http", "LOCALHOST", "LOCALHOST")
      [] raw = "http://0.0.0.0/" -> Parsed("http", "0.0.0.0", "0.0.0.0")
      [] raw = "http://[::]/" -> Parsed("http", "[::]", "::")
      [] raw = "http://10.0.0.1/internal" -> Parsed("http", "10.0.0.1", "10.0.0.1")
      [] raw = "http://192.168.1.1/router" ->
           Parsed("http", "192.168.1.1", "192.168.1.1")
      [] raw = "http://172.16.0.1/internal" ->
           Parsed("http", "172.16.0.1", "172.16.0.1")
      [] raw = "http://172.31.255.255/internal" ->
           Parsed("http", "172.31.255.255", "172.31.255.255")
      [] raw = "http://172.32.0.1/" -> Parsed("http", "172.32.0.1", "172.32.0.1")
      [] raw = "http://169.254.169.254/latest" ->
           Parsed("http", "169.254.169.254", "169.254.169.254")
      [] raw = "http://[fe80::1]/" -> Parsed("http", "[fe80::1]", "fe80::1")
      [] raw = "http://example.com" -> Parsed("http", "example.com", "example.com")
      [] raw = "https://example.com/path" ->
           Parsed("https", "example.com", "example.com")
      [] raw = "https://example.com:8443/api" ->
           Parsed("https", "example.com:8443", "example.com")
      [] raw = "https://api.example.com/v1/users" ->
           Parsed("https", "api.example.com", "api.example.com")
      [] raw = "HTTPS://Example.COM/" -> Parsed("https", "Example.COM", "Example.COM")
      [] raw = "http://10.example.com/" ->
           Parsed("http", "10.example.com", "10.example.com")
      [] raw = "http://192.168.example.com/" ->
           Parsed("http", "192.168.example.com", "192.168.example.com")
      [] raw = "http://172.16.example.com/" ->
           Parsed("http", "172.16.example.com", "172.16.example.com")
      [] raw = "http://multi.example.com/" ->
           Parsed("http", "multi.example.com", "multi.example.com")
      [] raw = "http://intranet.example.com/" ->
           Parsed("http", "intranet.example.com", "intranet.example.com")
      [] raw = "http://metadata.example.com/" ->
           Parsed("http", "metadata.example.com", "metadata.example.com")
      [] raw = "http://mcast.example.com/" ->
           Parsed("http", "mcast.example.com", "mcast.example.com")
      [] raw = "http://loop.example.com/" ->
           Parsed("http", "loop.example.com", "loop.example.com")
      [] raw = "http://nxdomain.invalid/" ->
           Parsed("http", "nxdomain.invalid", "nxdomain.invalid")
      [] OTHER ->
           [ok |-> FALSE, scheme |-> "", host |-> "", hostname |-> ""]

\* the lower-case letter of an upper-case letter, any other character itself
LowerChar(c) ==
    CASE c = "A" -> "a" [] c = "B" -> "b" [] c = "C" -> "c" [] c = "D" -> "d"
      [] c = "E" -> "e" [] c = "F" -> "f" [] c = "G" -> "g" [] c = "H" -> "h"
      [] c = "I" -> "i" [] c = "J" -> "j" [] c = "K" -> "k" [] c = "L" -> "l"
      [] c = "M" -> "m" [] c = "N" -> "n" [] c = "O" -> "o" [] c = "P" -> "p"
      [] c = "Q" -> "q" [] c = "R" -> "r" [] c = "S" -> "s" [] c = "T" -> "t"
      [] c = "U" -> "u" [] c = "V" -> "v" [] c = "W" -> "w" [] c = "X" -> "x"
      [] c = "Y" -> "y" [] c = "Z" -> "z" [] OTHER -> c

\* strings.ToLower
RECURSIVE ToLower(_)
ToLower(s) ==
    IF Len(s) = 0 THEN s
    ELSE LowerChar(SubSeq(s, 1, 1)) \o ToLower(SubSeq(s, 2, Len(s)))

\* strings.HasPrefix
HasPrefix(s, prefix) ==
    Len(s) >= Len(prefix) /\ SubSeq(s, 1, Len(prefix)) = prefix

\* the addresses of the model: an IPv4 address is its four bytes, an IPv6
\* address its eight 16-bit groups
PublicIP == <<93, 184, 216, 34>>

\* net.LookupIP: an IP literal resolves to itself, a name by the DNS (which
\* does not tell upper case from lower case)
LookupIP(hostname) ==
    CASE ToLower(hostname) \in {"example.com", "api.example.com",
                                "10.example.com", "192.168.example.com",
                                "172.16.example.com"} ->
           [ok |-> TRUE, ips |-> {PublicIP}]
      [] hostname = "multi.example.com" ->
           [ok |-> TRUE, ips |-> {PublicIP, <<10, 0, 0, 5>>}]
      [] hostname = "intranet.example.com" ->
           [ok |-> TRUE, ips |-> {<<192, 168, 1, 10>>}]
      [] hostname = "metadata.example.com" ->
           [ok |-> TRUE, ips |-> {<<169, 254, 169, 254>>}]
      [] hostname = "mcast.example.com" ->
           [ok |-> TRUE, ips |-> {<<224, 0, 0, 251>>, PublicIP}]
      [] hostname = "loop.example.com" ->
           [ok |-> TRUE, ips |-> {<<127, 0, 0, 1>>}]
      [] ToLower(hostname) = "localhost" ->
           [ok |-> TRUE, ips |-> {<<127, 0, 0, 1>>, <<0, 0, 0, 0, 0, 0, 0, 1>>}]
      [] hostname = "127.0.0.1" -> [ok |-> TRUE, ips |-> {<<127, 0, 0, 1>>}]
      [] hostname = "::1" -> [ok |-> TRUE, ips |-> {<<0, 0, 0, 0, 0, 0, 0, 1>>}]
      [] hostname = "0.0.0.0" -> [ok |-> TRUE, ips |-> {<<0, 0, 0, 0>>}]
      [] hostname = "::" -> [ok |-> TRUE, ips |-> {<<0, 0, 0, 0, 0, 0, 0, 0>>}]
      [] hostname = "10.0.0.1" -> [ok |-> TRUE, ips |-> {<<10, 0, 0, 1>>}]
      [] hostname = "192.168.1.1" -> [ok |-> TRUE, ips |-> {<<192, 168, 1, 1>>}]
      [] hostname = "172.16.0.1" -> [ok |-> TRUE, ips |-> {<<172, 16, 0, 1>>}]
      [] hostname = "172.31.255.255" ->
           [ok |-> TRUE, ips |-> {<<172, 31, 255, 255>>}]
      [] hostname = "172.32.0.1" -> [ok |-> TRUE, ips |-> {<<172, 32, 0, 1>>}]
      [] hostname = "169.254.169.254" ->
           [ok |-> TRUE, ips |-> {<<169, 254, 169, 254>>}]
      [] hostname = "fe80::1" ->
           [ok |-> TRUE, ips |-> {<<65152, 0, 0, 0, 0, 0, 0, 1>>}]
      [] OTHER -> [ok |-> FALSE, ips |-> {}]

validateScheme(scheme) ==
    IF scheme \in {"http", "https"} THEN "ok" ELSE "disallowed-scheme"

isLocalhost(hostname) ==
    ToLower(hostname) \in {"localhost", "127.0.0.1", "::1", "0.0.0.0", "::"}

\* ip.IsLoopback, ip.IsPrivate, ip.IsLinkLocalUnicast, ip.IsMulticast, in
\* the order of the code
validateIP(ip) ==
    IF Len(ip) = 4
    THEN IF ip[1] = 127 THEN "loopback"
         ELSE IF \/ ip[1] = 10
                 \/ ip[1] = 172 /\ ip[2] \in 16..31
                 \/ ip[1] = 192 /\ ip[2] = 168 THEN "private"
         ELSE IF ip[1] = 169 /\ ip[2] = 254 THEN "link-local"
         ELSE IF ip[1] \in 224..239 THEN "multicast"
         ELSE "ok"
    ELSE IF ip = <<0, 0, 0, 0, 0, 0, 0, 1>> THEN "loopback"
         ELSE IF ip[1] \in 64512..65023 THEN "private"
         ELSE IF ip[1] \in 65152..65215 THEN "link-local"
         ELSE IF ip[1] \in 65280..65535 THEN "multicast"
         ELSE "ok"

\* a check of the addresses that rejects only when every one is dangerous
validateHostnameAllBad(hostname) ==
    IF hostname = "" THEN "empty-host"
    ELSE IF isLocalhost(hostname) THEN "is-localhost"
    ELSE IF ~LookupIP(hostname).ok THEN "dns-failure"
    ELSE IF \A ip \in LookupIP(hostname).ips : validateIP(ip) # "ok"
         THEN "blocked-ip"
    ELSE "ok"

validateHostname(hostname) ==
    IF hostname = "" THEN "empty-host"
    ELSE IF isLocalhost(hostname) THEN "is-localhost"
    ELSE IF ~LookupIP(hostname).ok THEN "dns-failure"
    ELSE IF \E ip \in LookupIP(hostname).ips : validateIP(ip) # "ok"
         THEN "blocked-ip"
    ELSE "ok"

\* libs.Validator.ValidateURL
ValidateURL(raw) ==
    IF raw = "" THEN "empty-url"
    ELSE IF ~ParseURL(raw).ok THEN "malformed"
    ELSE IF validateScheme(ToLower(ParseURL(raw).scheme)) # "ok"
         THEN validateScheme(ToLower(ParseURL(raw).scheme))
    ELSE validateHostname(ParseURL(raw).hostname)

\* the private-address check of crawlers.ValidateURL: prefixes of the host
\* string, "10.", "192.168." and "172.16." to "172.31."
PrivatePrefixes ==
    {"10.", "192.168.", "172.16.", "172.17.", "172.18.", "172.19.", "172.20.",
     "172.21.", "172.22.", "172.23.", "172.24.", "172.25.", "172.26.",
     "172.27.", "172.28.", "172.29.", "172.30.", "172.31."}

\* crawlers.ValidateURL
crawlersValidateURL(raw) ==
    IF raw = "" THEN "empty-url"
    ELSE IF ~ParseURL(raw).ok THEN "malformed"
    ELSE IF ParseURL(raw).scheme = "" THEN "no-scheme"
    ELSE IF ParseURL(raw).scheme \notin {"http", "https"}
         THEN "disallowed-scheme"
    ELSE IF ParseURL(raw).host = "" THEN "empty-host"
    ELSE IF ToLower(ParseURL(raw).hostname) \in {"localhost", "127.0.0.1", "::1"}
         THEN "is-localhost"
    ELSE IF \E prefix \in PrivatePrefixes :
                HasPrefix(ToLower(ParseURL(raw).hostname), prefix)
         THEN "private-ip"
    ELSE "ok"

\* ------------------------------------------------------------------- state
VARIABLES
    running,      \* Spider.running
    concurrency,  \* Spider.concurrency
    delay,        \* Spider.delay
    onDocument,   \* TRUE when a document handler is registered
    queue,        \* Spider.queue
    visited,      \* the keys of Spider.visited
    wg,           \* the counter of Spider.wg
    pc,           \* where each caller is in Run()
    cur,          \* currentURL of each caller
    semCap,       \* capacity of the sem channel of each caller's Run()
    semCount,     \* number of elements in that channel
    workers,      \* the goroutines started by Run() that have not ended (a bag)
    ret,          \* history: what each caller's last Run() returned
    stopped,      \* history: Stop() was called during the caller's Run()
    epoch,        \* history: number of ClearVisited calls so far
    claimEpoch,   \* history: the epoch in which the caller marked cur
    fetches,      \* history: bag of <<url, epoch of the claim>> of the GETs sent
    handled,      \* history: bag of <<url, epoch of the claim>> of the handler calls
    nPush,        \* history: number of AddStartURL calls so far
    popped,       \* history: the URLs that a Run() took from the queue
    ledger,       \* history: what happened to each appended queue entry
    crawl,        \* one call of Spider.crawlURL, step by step
    validation,   \* a URL and what the two validators answered for it
    service,      \* CrawlerService.CrawlAndStore and its cache and database
    rabbit,       \* a RabbitMQClient: its channel and its connection
    locks,        \* the Spider's two locks and the goroutines that take them
    consume,      \* one call of RabbitMQClient.Consume and its deliveries
    kafka         \* one call of KafkaConsumer.Consume and its reader

vars == <<running, concurrency, delay, onDocument, queue, visited, wg, pc,
          cur, semCap, semCount, workers, ret, stopped, epoch, claimEpoch,
          fetches, handled, nPush, popped, ledger, crawl, validation, service,
          rabbit, locks, consume, kafka>>

\* the variables of the Spider, and those of the other components
spider == <<running, concurrency, delay, onDocument, queue, visited, wg, pc,
            cur, semCap, semCount, workers, ret, stopped, epoch, claimEpoch,
            fetches, handled, nPush, popped, ledger>>
others == <<crawl, validation, service, rabbit, locks, consume, kafka>>

\* the variables a step of Run() or of a worker leaves alone unless it says so
config == <<concurrency, delay, onDocument>>
history == <<epoch, fetches, handled, nPush>>

\* the other components before anything is called on them
NoCall == [pc |-> "idle", url |-> "", status |-> 0, parses |-> FALSE,
           requests |-> 0, handlerCalls |-> 0, err |-> "none", calls |-> 0]
NoValidation == [rawURL |-> "", libs |-> "none", crawlers |-> "none"]
NoService ==
    [pc |-> "idle", url |-> "", key |-> "", hasCache |-> TRUE, err |-> FALSE,
     cached |-> FALSE, visits |-> 0, created |-> 0, writes |-> 0,
     ret |-> "none", calls |-> 0, cache |-> {}, rows |-> <<>>]
NoClient ==
    [pc |-> "idle", conn |-> 0, channel |-> 0, conns |-> {}, chans |-> {},
     newConn |-> 0, ret |-> "none", dials |-> 0]
NoLocks ==
    [pc |-> "idle", cur |-> "", queue |-> <<>>, visited |-> {}, sem |-> 0,
     workers |-> EmptyBag, queueMu |-> "none", visitedW |-> "none",
     visitedR |-> {}, adding |-> "", adds |-> 0]
NoConsume ==
    [pc |-> "idle", ctxDone |-> FALSE, open |-> TRUE, msgs |-> <<>>,
     sent |-> 0, msg |-> 0, res |-> "none", ok |-> {}, errs |-> {},
     acks |-> {}, nacks |-> {}, handled |-> 0, ret |-> "none"]
NoKafka ==
    [pc |-> "idle", ctxDone |-> FALSE, topic |-> 0, fetched |-> 0, msg |-> 0,
     ok |-> {}, commits |-> <<>>, atCancel |-> 0, ret |-> "none"]

\* NewSpider: a zero Concurrency of the config becomes the default
NewSpider(config_Concurrency, config_Delay) ==
    [concurrency |-> IF config_Concurrency = 0 THEN DefaultConcurrency
                     ELSE config_Concurrency,
     delay |-> config_Delay]

\* the Spider under test: NewSpider(SpiderConfig{Concurrency: 1, Delay: 1s})
TheSpider == NewSpider(1, DefaultDelay)

\* The ledger numbers the queue entries in the order AddStartURL appended
\* them: order lists the numbers of the entries still queued (parallel to
\* queue), hand[r] is the entry Run() r popped and has not yet dispatched or
\* skipped (0 when it has none), and pops, starts and skips count what
\* happened to each entry.
NoLedger ==
    [order |-> <<>>, hand |-> [r \in Callers |-> 0], pops |-> <<>>,
     starts |-> <<>>, skips |-> <<>>]

SpiderInit ==
    /\ running = FALSE
    /\ concurrency = TheSpider.concurrency
    /\ delay = TheSpider.delay
    /\ onDocument = FALSE
    /\ queue = <<>>
    /\ visited = {}
    /\ wg = 0
    /\ pc = [r \in Callers |-> "idle"]
    /\ cur = [r \in Callers |-> ""]
    /\ semCap = [r \in Callers |-> 0]
    /\ semCount = [r \in Callers |-> 0]
    /\ workers = EmptyBag
    /\ ret = [r \in Callers |-> "none"]
    /\ stopped = [r \in Callers |-> FALSE]
    /\ epoch = 0
    /\ claimEpoch = [r \in Callers |-> 0]
    /\ fetches = EmptyBag
    /\ handled = EmptyBag
    /\ nPush = 0
    /\ popped = {}
    /\ ledger = NoLedger

Init ==
    /\ SpiderInit
    /\ crawl = NoCall
    /\ validation = NoValidation
    /\ service = NoService
    /\ rabbit = NoClient
    /\ locks = NoLocks
    /\ consume = NoConsume
    /\ kafka = NoKafka

\* ------------------------------------------------ operations of the caller
Appended(i) ==
    [ledger EXCEPT !.order = Append(@, i), !.pops = Append(@, 0),
                   !.starts = Append(@, 0), !.skips = Append(@, 0)]

Taken(r) ==
    [ledger EXCEPT !.order = Tail(@), !.hand[r] = Head(ledger.order),
                   !.pops[Head(ledger.order)] = @ + 1]

Skipped(r) ==
    [ledger EXCEPT !.hand[r] = 0, !.skips[ledger.hand[r]] = @ + 1]

Started(r) ==
    [ledger EXCEPT !.hand[r] = 0, !.starts[ledger.hand[r]] = @ + 1]

AddStartURL(u) ==
    /\ nPush < MaxPush
    /\ queue' = Append(queue, u)
    /\ nPush' = nPush + 1
    /\ ledger' = Appended(nPush + 1)
    /\ UNCHANGED <<others, popped, running, config, visited, wg, pc, cur, semCap,
                   semCount, workers, ret, stopped, epoch, claimEpoch,
                   fetches, handled>>

OnDocument ==
    /\ onDocument' = TRUE
    /\ UNCHANGED <<others, popped, ledger, running, concurrency, delay, queue, visited, wg, pc,
                   cur, semCap, semCount, workers, ret, stopped, claimEpoch,
                   history>>

SetConcurrency(n) ==
    /\ concurrency' = n
    /\ UNCHANGED <<others, popped, ledger, running, delay, onDocument, queue, visited, wg, pc,
                   cur, semCap, semCount, workers, ret, stopped, claimEpoch,
                   history>>

Stop ==
    /\ running' = FALSE
    /\ stopped' = [r \in Callers |-> stopped[r] \/ pc[r] \notin {"idle", "set"}]
    /\ UNCHANGED <<others, popped, ledger, config, queue, visited, wg, pc, cur, semCap,
                   semCount, workers, ret, claimEpoch, history>>

\* a clear that leaves the map as it is
ClearVisitedKeeps ==
    /\ epoch < MaxClear
    /\ visited' = visited
    /\ epoch' = epoch + 1
    /\ UNCHANGED <<others, popped, ledger, running, config, queue, wg, pc, cur,
                   semCap, semCount, workers, ret, stopped, claimEpoch,
                   fetches, handled, nPush>>

ClearVisited ==
    /\ epoch < MaxClear
    /\ visited' = {}
    /\ epoch' = epoch + 1
    /\ UNCHANGED <<others, popped, ledger, running, config, queue, wg, pc, cur, semCap,
                   semCount, workers, ret, stopped, claimEpoch, fetches,
                   handled, nPush>>

\* a count of the URLs whose document reached the handler only
GetVisitedCountHandled == Cardinality({p[1] : p \in BagToSet(handled)})

GetVisitedCount == Cardinality(visited)

IsRunning == running

\* ----------------------------------------------------------------- Run()
\* if s.running { return error }
RunCheck(r) ==
    /\ pc[r] = "idle"
    /\ IF running
       THEN /\ ret' = [ret EXCEPT ![r] = "err"]
            /\ pc' = pc
       ELSE /\ ret' = [ret EXCEPT ![r] = "none"]
            /\ pc' = [pc EXCEPT ![r] = "set"]
    /\ UNCHANGED <<others, popped, ledger, running, config, queue, visited, wg, cur, semCap,
                   semCount, workers, stopped, claimEpoch, history>>

\* s.running = true; sem := make(chan struct{}, s.concurrency)
RunStart(r) ==
    /\ pc[r] = "set"
    /\ running' = TRUE
    /\ semCap' = [semCap EXCEPT ![r] = concurrency]
    /\ semCount' = [semCount EXCEPT ![r] = 0]
    /\ pc' = [pc EXCEPT ![r] = "loop"]
    /\ UNCHANGED <<others, popped, ledger, config, queue, visited, wg, cur, workers, ret,
                   stopped, claimEpoch, history>>

\* a loop that also ends when Stop() cleared the flag, leaving entries queued
LoopCheckRunning(r) ==
    /\ pc[r] = "loop"
    /\ pc' = [pc EXCEPT ![r] = IF Len(queue) > 0 /\ running THEN "pop"
                               ELSE "wait"]
    /\ UNCHANGED <<others, popped, ledger, running, config, queue, visited, wg, cur, semCap,
                   semCount, workers, ret, stopped, claimEpoch, history>>

\* for len(s.queue) > 0
LoopCheck(r) ==
    /\ pc[r] = "loop"
    /\ pc' = [pc EXCEPT ![r] = IF Len(queue) > 0 THEN "pop" ELSE "wait"]
    /\ UNCHANGED <<others, popped, ledger, running, config, queue, visited, wg, cur, semCap,
                   semCount, workers, ret, stopped, claimEpoch, history>>

\* the queue used as a stack: the entry appended last is taken first
PopLast(r) ==
    /\ pc[r] = "pop"
    /\ IF Len(queue) = 0
       THEN /\ pc' = [pc EXCEPT ![r] = "wait"]
            /\ UNCHANGED <<queue, cur, popped, ledger>>
       ELSE /\ cur' = [cur EXCEPT ![r] = queue[Len(queue)]]
            /\ queue' = SubSeq(queue, 1, Len(queue) - 1)
            /\ popped' = popped \cup {queue[Len(queue)]}
            /\ ledger' = [ledger EXCEPT
                   !.order = SubSeq(@, 1, Len(@) - 1),
                   !.hand[r] = ledger.order[Len(ledger.order)],
                   !.pops[ledger.order[Len(ledger.order)]] = @ + 1]
            /\ pc' = [pc EXCEPT ![r] = "read"]
    /\ UNCHANGED <<others, running, config, visited, wg, semCap, semCount,
                   workers, ret, stopped, claimEpoch, history>>

\* s.queueMu.Lock(); the re-check of the length; the pop of the head; Unlock
Pop(r) ==
    /\ pc[r] = "pop"
    /\ IF Len(queue) = 0
       THEN /\ pc' = [pc EXCEPT ![r] = "wait"]
            /\ UNCHANGED <<queue, cur, popped, ledger>>
       ELSE /\ cur' = [cur EXCEPT ![r] = Head(queue)]
            /\ queue' = Tail(queue)
            /\ popped' = popped \cup {Head(queue)}
            /\ ledger' = Taken(r)
            /\ pc' = [pc EXCEPT ![r] = "read"]
    /\ UNCHANGED <<others, running, config, visited, wg, semCap, semCount,
                   workers, ret, stopped, claimEpoch, history>>

\* RLock; isVisited := s.visited[currentURL]; RUnlock; if isVisited { continue }
VisitedRead(r) ==
    /\ pc[r] = "read"
    /\ IF cur[r] \in visited
       THEN /\ pc' = [pc EXCEPT ![r] = "loop"]
            /\ cur' = [cur EXCEPT ![r] = ""]
            /\ ledger' = Skipped(r)
       ELSE /\ pc' = [pc EXCEPT ![r] = "mark"]
            /\ cur' = cur
            /\ ledger' = ledger
    /\ UNCHANGED <<others, popped, running, config, queue, visited, wg, semCap,
                   semCount, workers, ret, stopped, claimEpoch, history>>

\* s.visitedMu.Lock(); s.visited[currentURL] = true; Unlock
Mark(r) ==
    /\ pc[r] = "mark"
    /\ visited' = visited \cup {cur[r]}
    /\ claimEpoch' = [claimEpoch EXCEPT ![r] = epoch]
    /\ pc' = [pc EXCEPT ![r] = "sem"]
    /\ UNCHANGED <<others, popped, ledger, running, config, queue, wg, cur, semCap,
                   semCount, workers, ret, stopped, history>>

\* the bound of the channel off by one: one more send than its capacity
SendReadyOffByOne(n, c) == n <= c

\* a send on a channel of capacity c that holds n elements does not block
SendReady(n, c) == n < c

\* a send bounded by the concurrency field as it is now, not by the channel
SemAcquireLive(r) ==
    /\ pc[r] = "sem"
    /\ SendReady(semCount[r], concurrency)
    /\ semCount' = [semCount EXCEPT ![r] = @ + 1]
    /\ pc' = [pc EXCEPT ![r] = "go"]
    /\ UNCHANGED <<others, popped, ledger, running, config, queue, visited, wg, cur, semCap,
                   workers, ret, stopped, claimEpoch, history>>

\* sem <- struct{}{}
SemAcquire(r) ==
    /\ pc[r] = "sem"
    /\ SendReady(semCount[r], semCap[r])
    /\ semCount' = [semCount EXCEPT ![r] = @ + 1]
    /\ pc' = [pc EXCEPT ![r] = "go"]
    /\ UNCHANGED <<others, popped, ledger, running, config, queue, visited, wg, cur, semCap,
                   workers, ret, stopped, claimEpoch, history>>

\* the goroutine that Run() starts for url
NewWorker(url, r, e) ==
    [url |-> url, run |-> r, epoch |-> e, pc |-> "crawl", res |-> "none"]

\* s.wg.Add(1); go func(url string) {...}(currentURL)
Dispatch(r) ==
    /\ pc[r] = "go"
    /\ wg' = wg + 1
    /\ workers' = workers (+) SetToBag({NewWorker(cur[r], r, claimEpoch[r])})
    /\ cur' = [cur EXCEPT ![r] = ""]
    /\ claimEpoch' = [claimEpoch EXCEPT ![r] = 0]
    /\ pc' = [pc EXCEPT ![r] = "loop"]
    /\ ledger' = Started(r)
    /\ UNCHANGED <<others, popped, running, config, queue, visited, semCap, semCount,
                   ret, stopped, history>>

\* a Wait that lets one goroutine still run
WaitReadyEarly(n) == n <= 1

\* Wait on a WaitGroup whose counter is n returns
WaitReady(n) == n = 0

\* s.wg.Wait(); return nil
Wait(r) ==
    /\ pc[r] = "wait"
    /\ WaitReady(wg)
    /\ ret' = [ret EXCEPT ![r] = "nil"]
    /\ pc' = [pc EXCEPT ![r] = "ret"]
    /\ UNCHANGED <<others, popped, ledger, running, config, queue, visited, wg, cur, semCap,
                   semCount, workers, stopped, claimEpoch, history>>

\* the deferred s.running = false, and Run() is back in its caller
Return(r) ==
    /\ pc[r] = "ret"
    /\ running' = FALSE
    /\ stopped' = [stopped EXCEPT ![r] = FALSE]
    /\ pc' = [pc EXCEPT ![r] = "idle"]
    /\ UNCHANGED <<others, popped, ledger, config, queue, visited, wg, cur, semCap, semCount,
                   workers, ret, claimEpoch, history>>

\* ------------------------------------------------------------ the workers
Workers == BagToSet(workers)

\* one worker takes a step from w to w2
Step(w, w2) == workers' = (workers (-) SetToBag({w})) (+) SetToBag({w2})

\* the release not deferred: a worker whose crawlURL failed ends at once
AfterCrawlNoDefer(res) ==
    IF res = "err" THEN "wgdone" ELSE IF delay > 0 THEN "sleep" ELSE "release"

\* where a worker goes when crawlURL has returned res: the sleep if a delay is
\* configured, then the deferred function, whatever res is
AfterCrawl(res) == IF delay > 0 THEN "sleep" ELSE "release"

\* http.NewRequest and the sending of the GET by httpClient.Do
Issue(w) ==
    /\ w.pc = "crawl"
    /\ IF ParseURL(w.url).ok
       THEN /\ Step(w, [w EXCEPT !.pc = "inflight"])
            /\ fetches' = fetches (+) SetToBag({<<w.url, w.epoch>>})
       ELSE /\ Step(w, [w EXCEPT !.pc = AfterCrawl("err"), !.res = "err"])
            /\ fetches' = fetches
    /\ UNCHANGED <<others, popped, ledger, running, config, queue, visited, wg, pc, cur,
                   semCap, semCount, ret, stopped, epoch, claimEpoch, handled,
                   nPush>>

\* what httpClient.Do and the parse of the body can come to: a transport
\* error, or a response with a status whose body parses or does not
Outcomes ==
    {[neterr |-> TRUE, status |-> 0, parses |-> FALSE]} \cup
    [neterr : {FALSE}, status : Statuses, parses : BOOLEAN]

\* a mistaken reading of the status check: every 2xx status goes on
StatusAccepted2xx(status) == status \in 200..299

\* if resp.StatusCode != http.StatusOK { return error }
StatusAccepted(status) == status = StatusOK

\* the result of crawlURL up to the handler, for an outcome of the fetch
CrawlResult(o) ==
    IF o.neterr THEN "err"
    ELSE IF ~StatusAccepted(o.status) THEN "err"
    ELSE IF ~o.parses THEN "err"
    ELSE "ok"

\* the return of Do, the status check and the parse of the body
Response(w, o) ==
    /\ w.pc = "inflight"
    /\ IF CrawlResult(o) = "ok" /\ onDocument
       THEN Step(w, [w EXCEPT !.pc = "handler", !.res = "ok"])
       ELSE Step(w, [w EXCEPT !.pc = AfterCrawl(CrawlResult(o)),
                              !.res = CrawlResult(o)])
    /\ UNCHANGED <<others, popped, ledger, running, config, queue, visited, wg, pc, cur,
                   semCap, semCount, ret, stopped, claimEpoch, history>>

\* s.onDocument(doc, urlStr), which returns nil or an error
Handler(w, herr) ==
    /\ w.pc = "handler"
    /\ Step(w, [w EXCEPT !.pc = AfterCrawl(IF herr THEN "err" ELSE "ok"),
                         !.res = IF herr THEN "err" ELSE "ok"])
    /\ handled' = handled (+) SetToBag({<<w.url, w.epoch>>})
    /\ UNCHANGED <<others, popped, ledger, running, config, queue, visited, wg, pc, cur,
                   semCap, semCount, ret, stopped, epoch, claimEpoch, fetches,
                   nPush>>

\* time.Sleep(s.delay)
Sleep(w) ==
    /\ w.pc = "sleep"
    /\ Step(w, [w EXCEPT !.pc = "release"])
    /\ UNCHANGED <<others, popped, ledger, running, config, queue, visited, wg, pc, cur,
                   semCap, semCount, ret, stopped, claimEpoch, history>>

\* a release that is not deferred: a worker whose crawl failed keeps its slot
ReleaseOnSuccess(w) ==
    /\ w.pc = "release"
    /\ semCount[w.run] > 0
    /\ semCount' = IF w.res = "ok" THEN [semCount EXCEPT ![w.run] = @ - 1]
                   ELSE semCount
    /\ Step(w, [w EXCEPT !.pc = "wgdone"])
    /\ UNCHANGED <<others, popped, ledger, running, config, queue, visited, wg, pc,
                   cur, semCap, ret, stopped, claimEpoch, history>>

\* deferred: <-sem
Release(w) ==
    /\ w.pc = "release"
    /\ semCount[w.run] > 0
    /\ semCount' = [semCount EXCEPT ![w.run] = @ - 1]
    /\ Step(w, [w EXCEPT !.pc = "wgdone"])
    /\ UNCHANGED <<others, popped, ledger, running, config, queue, visited, wg, pc, cur,
                   semCap, ret, stopped, claimEpoch, history>>

\* deferred: s.wg.Done(), and the goroutine ends
WgDone(w) ==
    /\ w.pc = "wgdone"
    /\ wg' = wg - 1
    /\ workers' = workers (-) SetToBag({w})
    /\ UNCHANGED <<others, popped, ledger, running, config, queue, visited, pc, cur, semCap,
                   semCount, ret, stopped, claimEpoch, history>>

\* ------------------------------------------------------------ specification
Next ==
    \/ \E u \in SpiderURLs : AddStartURL(u)
    \/ OnDocument
    \/ \E n \in 0..MaxConc : SetConcurrency(n)
    \/ Stop
    \/ ClearVisited
    \/ \E r \in Callers : RunCheck(r)
    \/ \E r \in Callers : RunStart(r)
    \/ \E r \in Callers : LoopCheck(r)
    \/ \E r \in Callers : Pop(r)
    \/ \E r \in Callers : VisitedRead(r)
    \/ \E r \in Callers : Mark(r)
    \/ \E r \in Callers : SemAcquire(r)
    \/ \E r \in Callers : Dispatch(r)
    \/ \E r \in Callers : Wait(r)
    \/ \E r \in Callers : Return(r)
    \/ \E w \in Workers : Issue(w)
    \/ \E w \in Workers, o \in Outcomes : Response(w, o)
    \/ \E w \in Workers, herr \in BOOLEAN : Handler(w, herr)
    \/ \E w \in Workers : Sleep(w)
    \/ \E w \in Workers : Release(w)
    \/ \E w \in Workers : WgDone(w)

Spec == Init /\ [][Next]_vars

\* the same Spider when one goroutine calls Run(), any number of times, and
\* sets the handler and the concurrency (plain writes of fields that Run()
\* and its workers read without a lock) between its calls of Run(), while
\* others add URLs, stop and clear at any time
NextOne ==
    \/ \E u \in SpiderURLs : AddStartURL(u)
    \/ pc[1] = "idle" /\ OnDocument
    \/ pc[1] = "idle" /\ \E n \in 0..MaxConc : SetConcurrency(n)
    \/ Stop
    \/ ClearVisited
    \/ RunCheck(1)
    \/ RunStart(1)
    \/ LoopCheck(1)
    \/ Pop(1)
    \/ VisitedRead(1)
    \/ Mark(1)
    \/ SemAcquire(1)
    \/ Dispatch(1)
    \/ Wait(1)
    \/ Return(1)
    \/ \E w \in Workers : Issue(w)
    \/ \E w \in Workers, o \in Outcomes : Response(w, o)
    \/ \E w \in Workers, herr \in BOOLEAN : Handler(w, herr)
    \/ \E w \in Workers : Sleep(w)
    \/ \E w \in Workers : Release(w)
    \/ \E w \in Workers : WgDone(w)

SpecOne == Init /\ [][NextOne]_vars

\* the steps of the goroutine that executes Run() r, after its call
RunSteps(r) ==
    \/ RunStart(r)
    \/ LoopCheck(r)
    \/ Pop(r)
    \/ VisitedRead(r)
    \/ Mark(r)
    \/ SemAcquire(r)
    \/ Dispatch(r)
    \/ Wait(r)
    \/ Return(r)

\* the steps of the worker goroutines and of the servers that answer them
WorkerSteps ==
    \/ \E w \in Workers : Issue(w)
    \/ \E w \in Workers, o \in Outcomes : Response(w, o)
    \/ \E w \in Workers, herr \in BOOLEAN : Handler(w, herr)
    \/ \E w \in Workers : Sleep(w)
    \/ \E w \in Workers : Release(w)
    \/ \E w \in Workers : WgDone(w)

\* one goroutine calls Run(), setting the handler between its calls, while
\* others set the concurrency and add URLs at any time, during a Run()
\* included
NextConc ==
    \/ \E u \in SpiderURLs : AddStartURL(u)
    \/ \E n \in 0..MaxConc : SetConcurrency(n)
    \/ pc[1] = "idle" /\ OnDocument
    \/ RunCheck(1)
    \/ RunSteps(1)
    \/ WorkerSteps

SpecConc == Init /\ [][NextConc]_vars

\* SpecOne under the Go scheduler: a goroutine that can take a step takes it
\* in the end, and every fetch, handler and sleep comes to an end
SpecFair ==
    /\ Init
    /\ [][NextOne]_vars
    /\ WF_vars(RunSteps(1))
    /\ WF_vars(WorkerSteps)

TypeOK ==
    /\ running \in BOOLEAN
    /\ wg \in 0..MaxPush
    /\ Len(queue) <= MaxPush
    /\ BagCardinality(workers) <= MaxPush

\* ------------------------------------------------- crawlURL, step by step
\* One call of crawlURL at a time, with the response it gets kept in the
\* state: the status, whether the body parses, the requests sent and the
\* handler calls made by the call.

\* crawlURL(urlStr) is entered; http.NewRequest fails on a URL that does not parse
CrawlURL(u) ==
    /\ crawl.pc = "idle"
    /\ crawl.calls < MaxCalls
    /\ crawl' = IF ParseURL(u).ok
                THEN [NoCall EXCEPT !.pc = "do", !.url = u,
                                    !.calls = crawl.calls + 1]
                ELSE [NoCall EXCEPT !.pc = "done", !.url = u, !.err = "request",
                                    !.calls = crawl.calls + 1]
    /\ UNCHANGED <<spider, validation, service, rabbit, locks, consume, kafka>>

\* resp, err := s.httpClient.Do(req)
Do(o) ==
    /\ crawl.pc = "do"
    /\ crawl' = IF o.neterr
                THEN [crawl EXCEPT !.pc = "done", !.err = "do",
                                   !.requests = crawl.requests + 1]
                ELSE [crawl EXCEPT !.pc = "status", !.status = o.status,
                                   !.parses = o.parses,
                                   !.requests = crawl.requests + 1]
    /\ UNCHANGED <<spider, validation, service, rabbit, locks, consume, kafka>>

\* the status check on the response
CheckStatus ==
    /\ crawl.pc = "status"
    /\ crawl' = IF StatusAccepted(crawl.status)
                THEN [crawl EXCEPT !.pc = "parse"]
                ELSE [crawl EXCEPT !.pc = "done", !.err = "status"]
    /\ UNCHANGED <<spider, validation, service, rabbit, locks, consume, kafka>>

\* goquery.NewDocumentFromReader(resp.Body), then if s.onDocument != nil
ParseBody ==
    /\ crawl.pc = "parse"
    /\ crawl' = IF ~crawl.parses
                THEN [crawl EXCEPT !.pc = "done", !.err = "parse"]
                ELSE IF onDocument
                THEN [crawl EXCEPT !.pc = "handler"]
                ELSE [crawl EXCEPT !.pc = "done", !.err = "nil"]
    /\ UNCHANGED <<spider, validation, service, rabbit, locks, consume, kafka>>

\* s.onDocument(doc, urlStr), whose error crawlURL returns
CallHandler(herr) ==
    /\ crawl.pc = "handler"
    /\ crawl' = [crawl EXCEPT !.pc = "done",
                              !.handlerCalls = crawl.handlerCalls + 1,
                              !.err = IF herr THEN "handler" ELSE "nil"]
    /\ UNCHANGED <<spider, validation, service, rabbit, locks, consume, kafka>>

\* crawlURL returns crawl.err to the worker
CrawlReturn ==
    /\ crawl.pc = "done"
    /\ crawl' = [crawl EXCEPT !.pc = "idle"]
    /\ UNCHANGED <<spider, validation, service, rabbit, locks, consume, kafka>>

NextCrawl ==
    \/ OnDocument
    \/ \E u \in SpiderURLs : CrawlURL(u)
    \/ \E o \in Outcomes : Do(o)
    \/ CheckStatus
    \/ ParseBody
    \/ \E herr \in BOOLEAN : CallHandler(herr)
    \/ CrawlReturn

SpecCrawl == Init /\ [][NextCrawl]_vars

\* ------------------------------------------------------ the two validators
\* A URL is given to libs.Validator.ValidateURL and to crawlers.ValidateURL,
\* in either order, and what each of them answered is kept.
InitValidate ==
    /\ SpiderInit
    /\ crawl = NoCall
    /\ validation \in [rawURL : RawURLs, libs : {"none"}, crawlers : {"none"}]
    /\ service = NoService
    /\ rabbit = NoClient
    /\ locks = NoLocks
    /\ consume = NoConsume
    /\ kafka = NoKafka

\* err := validator.ValidateURL(rawURL)
ValidatorCall ==
    /\ validation.libs = "none"
    /\ validation' = [validation EXCEPT !.libs = ValidateURL(validation.rawURL)]
    /\ UNCHANGED <<spider, crawl, service, rabbit, locks, consume, kafka>>

\* err := crawlers.ValidateURL(rawURL)
CrawlersCall ==
    /\ validation.crawlers = "none"
    /\ validation' =
          [validation EXCEPT !.crawlers = crawlersValidateURL(validation.rawURL)]
    /\ UNCHANGED <<spider, crawl, service, rabbit, locks, consume, kafka>>

NextValidate ==
    \/ ValidatorCall
    \/ CrawlersCall

SpecValidate == InitValidate /\ [][NextValidate]_vars

\* ------------------------------------------ CrawlerService.CrawlAndStore
\* service.cache is the set of keys the cache holds and service.rows the rows
\* of the pages table in the order of their creation; visits, created and
\* writes count what the call in progress has done.

\* cacheKey := fmt.Sprintf("page:%s", url)
CacheKey(url) == "page:" \o url

\* the service is built with a cache that holds some keys, or without a cache
InitService ==
    /\ SpiderInit
    /\ crawl = NoCall
    /\ validation = NoValidation
    /\ service \in
          {[NoService EXCEPT !.cache = c] :
               c \in SUBSET {CacheKey(u) : u \in SpiderURLs}}
          \cup {[NoService EXCEPT !.hasCache = FALSE]}
    /\ rabbit = NoClient
    /\ locks = NoLocks
    /\ consume = NoConsume
    /\ kafka = NoKafka

\* CrawlAndStore(url) is entered; if s.cache != nil
CrawlAndStore(url) ==
    /\ service.pc = "idle"
    /\ service.calls < MaxStore
    /\ service' = [service EXCEPT
                      !.pc = IF service.hasCache THEN "exists" ELSE "visit",
                      !.url = url, !.key = CacheKey(url), !.err = FALSE,
                      !.cached = FALSE, !.visits = 0, !.created = 0,
                      !.writes = 0, !.ret = "none", !.calls = @ + 1]
    /\ UNCHANGED <<spider, crawl, validation, rabbit, locks, consume, kafka>>

\* a skip of the crawl on a miss instead of on a hit
SkipCrawlOnMiss(err, cached) == ~err /\ ~cached

\* if err == nil && cached { return nil }
SkipCrawl(err, cached) == ~err /\ cached

\* cached, err := s.cache.Exists(cacheKey), which may fail
Exists(err) ==
    /\ service.pc = "exists"
    /\ LET cached == ~err /\ service.key \in service.cache
       IN service' = [service EXCEPT
                         !.err = err, !.cached = cached,
                         !.pc = IF SkipCrawl(err, cached) THEN "done" ELSE "visit",
                         !.ret = IF SkipCrawl(err, cached) THEN "nil" ELSE "none"]
    /\ UNCHANGED <<spider, crawl, validation, rabbit, locks, consume, kafka>>

\* what s.crawler.Visit(url) and Wait() come to: Visit returns an error, the
\* OnError callback sets crawlErr, no html element is found, or a page is built
VisitOutcomes == {"visit-error", "crawl-error", "no-data", "page"}

\* s.crawler.Visit(url); s.crawler.Wait(); the checks of crawlErr and crawledPage
Visit(o) ==
    /\ service.pc = "visit"
    /\ service' = [service EXCEPT
                      !.visits = @ + 1,
                      !.pc = IF o = "page" THEN "create" ELSE "done",
                      !.ret = IF o = "page" THEN "none" ELSE o]
    /\ UNCHANGED <<spider, crawl, validation, rabbit, locks, consume, kafka>>

\* a Create whose error is only noted: the call goes on to the cache write
CreateThenCache(err) ==
    /\ service.pc = "create"
    /\ service' = IF err
                  THEN [service EXCEPT
                           !.pc = IF service.hasCache THEN "set" ELSE "done",
                           !.ret = "db-error"]
                  ELSE [service EXCEPT
                           !.rows = Append(@, service.url),
                           !.created = @ + 1,
                           !.pc = IF service.hasCache THEN "set" ELSE "done",
                           !.ret = IF service.hasCache THEN "none" ELSE "nil"]
    /\ UNCHANGED <<spider, crawl, validation, rabbit, locks, consume, kafka>>

\* s.db.Create(crawledPage), which may fail; if s.cache != nil
Create(err) ==
    /\ service.pc = "create"
    /\ service' = IF err
                  THEN [service EXCEPT !.pc = "done", !.ret = "db-error"]
                  ELSE [service EXCEPT
                           !.rows = Append(@, service.url),
                           !.created = @ + 1,
                           !.pc = IF service.hasCache THEN "set" ELSE "done",
                           !.ret = IF service.hasCache THEN "none" ELSE "nil"]
    /\ UNCHANGED <<spider, crawl, validation, rabbit, locks, consume, kafka>>

\* s.cache.SetJSON(cacheKey, crawledPage, 24h), whose error is only logged
SetJSON(err) ==
    /\ service.pc = "set"
    /\ service' = IF err
                  THEN [service EXCEPT !.pc = "done", !.ret = "nil"]
                  ELSE [service EXCEPT
                           !.cache = @ \cup {service.key},
                           !.writes = @ + 1,
                           !.pc = "done", !.ret = "nil"]
    /\ UNCHANGED <<spider, crawl, validation, rabbit, locks, consume, kafka>>

\* CrawlAndStore returns service.ret
ServiceReturn ==
    /\ service.pc = "done"
    /\ service' = [service EXCEPT !.pc = "idle"]
    /\ UNCHANGED <<spider, crawl, validation, rabbit, locks, consume, kafka>>

NextService ==
    \/ \E url \in SpiderURLs : CrawlAndStore(url)
    \/ \E err \in BOOLEAN : Exists(err)
    \/ \E o \in VisitOutcomes : Visit(o)
    \/ \E err \in BOOLEAN : Create(err)
    \/ \E err \in BOOLEAN : SetJSON(err)
    \/ ServiceReturn

SpecService == InitService /\ [][NextService]_vars

\* ---------------------------------------------------------- RabbitMQClient
\* Connections are numbered in the order of their Dial, and the channel
\* opened on a connection bears its number.  rabbit.conns and rabbit.chans
\* are the connections and channels that are open at the broker, rabbit.conn
\* and rabbit.channel the fields of the client.

\* NewRabbitMQClient returned a client: Dial and conn.Channel() succeeded
InitRabbit ==
    /\ SpiderInit
    /\ crawl = NoCall
    /\ validation = NoValidation
    /\ service = NoService
    /\ rabbit = [NoClient EXCEPT !.conn = 1, !.channel = 1, !.conns = {1},
                                 !.chans = {1}]
    /\ locks = NoLocks
    /\ consume = NoConsume
    /\ kafka = NoKafka

\* the broker closes a channel after a channel-level exception
ChannelException(c) ==
    /\ c \in rabbit.chans
    /\ rabbit' = [rabbit EXCEPT !.chans = @ \ {c}]
    /\ UNCHANGED <<spider, crawl, validation, service, locks, consume, kafka>>

\* a connection is lost, and its channel with it
ConnectionLost(c) ==
    /\ c \in rabbit.conns
    /\ rabbit' = [rabbit EXCEPT !.conns = @ \ {c}, !.chans = @ \ {c}]
    /\ UNCHANGED <<spider, crawl, validation, service, locks, consume, kafka>>

\* Close(): if err := r.channel.Close(); err != nil { return err }
\* Closing a channel that is closed already is an error, closing an open one
\* may fail; the channel is closed after the call in either case.
CloseChannel(err) ==
    /\ rabbit.pc = "idle"
    /\ rabbit' = IF err \/ rabbit.channel \notin rabbit.chans
                 THEN [rabbit EXCEPT !.chans = @ \ {rabbit.channel},
                                     !.pc = "returned", !.ret = "err"]
                 ELSE [rabbit EXCEPT !.chans = @ \ {rabbit.channel},
                                     !.pc = "closeconn", !.ret = "none"]
    /\ UNCHANGED <<spider, crawl, validation, service, locks, consume, kafka>>

\* Close(): return r.conn.Close()
CloseConn(err) ==
    /\ rabbit.pc = "closeconn"
    /\ rabbit' = [rabbit EXCEPT
                     !.conns = @ \ {rabbit.conn},
                     !.chans = @ \ {rabbit.conn},
                     !.pc = "returned",
                     !.ret = IF err \/ rabbit.conn \notin rabbit.conns
                             THEN "err" ELSE "nil"]
    /\ UNCHANGED <<spider, crawl, validation, service, locks, consume, kafka>>

\* Close() has returned rabbit.ret
CloseReturn ==
    /\ rabbit.pc = "returned"
    /\ rabbit' = [rabbit EXCEPT !.pc = "idle"]
    /\ UNCHANGED <<spider, crawl, validation, service, locks, consume, kafka>>

\* Reconnect(): conn, err := amqp.Dial(r.url)
Dial(err) ==
    /\ rabbit.pc = "idle"
    /\ rabbit.dials < MaxDial
    /\ rabbit' = IF err
                 THEN [rabbit EXCEPT !.dials = @ + 1, !.ret = "err"]
                 ELSE [rabbit EXCEPT !.dials = @ + 1, !.ret = "none",
                                     !.newConn = rabbit.dials + 2,
                                     !.conns = @ \cup {rabbit.dials + 2},
                                     !.pc = "channel"]
    /\ UNCHANGED <<spider, crawl, validation, service, locks, consume, kafka>>

\* Reconnect(): channel, err := conn.Channel(), and conn.Close() on its error
OpenChannel(err) ==
    /\ rabbit.pc = "channel"
    /\ rabbit' = IF err \/ rabbit.newConn \notin rabbit.conns
                 THEN [rabbit EXCEPT !.conns = @ \ {rabbit.newConn},
                                     !.newConn = 0, !.pc = "idle", !.ret = "err"]
                 ELSE [rabbit EXCEPT !.chans = @ \cup {rabbit.newConn},
                                     !.pc = "swap"]
    /\ UNCHANGED <<spider, crawl, validation, service, locks, consume, kafka>>

\* Reconnect(): the old connection is closed if it is still open, and the
\* new connection and channel become the client's
Swap ==
    /\ rabbit.pc = "swap"
    /\ rabbit' = [rabbit EXCEPT
                     !.conns = IF rabbit.conn \in rabbit.conns
                               THEN @ \ {rabbit.conn} ELSE @,
                     !.chans = IF rabbit.conn \in rabbit.conns
                               THEN @ \ {rabbit.conn, rabbit.channel} ELSE @,
                     !.conn = rabbit.newConn, !.channel = rabbit.newConn,
                     !.newConn = 0, !.pc = "idle", !.ret = "nil"]
    /\ UNCHANGED <<spider, crawl, validation, service, locks, consume, kafka>>

\* r.conn.IsClosed()
IsClosed == rabbit.conn \notin rabbit.conns

NextRabbit ==
    \/ \E c \in 1..(MaxDial + 1) : ChannelException(c)
    \/ \E c \in 1..(MaxDial + 1) : ConnectionLost(c)
    \/ \E err \in BOOLEAN : CloseChannel(err)
    \/ \E err \in BOOLEAN : CloseConn(err)
    \/ CloseReturn
    \/ \E err \in BOOLEAN : Dial(err)
    \/ \E err \in BOOLEAN : OpenChannel(err)
    \/ Swap

SpecRabbit == InitRabbit /\ [][NextRabbit]_vars

\* ------------------------------------------- the Spider, lock by lock
\* The same Run() loop with every Lock, RLock, Unlock and RUnlock as a step.
\* locks.queueMu and locks.visitedW name the goroutine that holds queueMu and
\* the write side of visitedMu ("none" when free), locks.visitedR is the set
\* of goroutines that hold the read side.  The goroutines are "run" (the one
\* executing Run()), "add", "clear" and "count" (callers of AddStartURL,
\* ClearVisited and GetVisitedCount); the workers are the bag locks.workers
\* of their positions.  locks.pc is the position of Run().

\* a step of this component leaves the others alone
OtherThanLocks == UNCHANGED <<spider, crawl, validation, service, rabbit, consume, kafka>>

InitLocks ==
    /\ SpiderInit
    /\ crawl = NoCall
    /\ validation = NoValidation
    /\ service = NoService
    /\ rabbit = NoClient
    /\ locks = NoLocks
    /\ consume = NoConsume
    /\ kafka = NoKafka

\* AddStartURL: s.queueMu.Lock()
QueueLockAdd(u) ==
    /\ locks.adding = ""
    /\ locks.adds < MaxAdds
    /\ locks.queueMu = "none"
    /\ locks' = [locks EXCEPT !.queueMu = "add", !.adding = u, !.adds = @ + 1]
    /\ OtherThanLocks

\* AddStartURL: the append and the deferred s.queueMu.Unlock()
AppendUnlock ==
    /\ locks.queueMu = "add"
    /\ locks' = [locks EXCEPT !.queue = Append(@, locks.adding),
                              !.adding = "", !.queueMu = "none"]
    /\ OtherThanLocks

\* ClearVisited: s.visitedMu.Lock()
VisitedLockClear ==
    /\ locks.visitedW = "none"
    /\ locks.visitedR = {}
    /\ locks' = [locks EXCEPT !.visitedW = "clear"]
    /\ OtherThanLocks

\* ClearVisited: the new map and the deferred s.visitedMu.Unlock()
ClearUnlock ==
    /\ locks.visitedW = "clear"
    /\ locks' = [locks EXCEPT !.visited = {}, !.visitedW = "none"]
    /\ OtherThanLocks

\* GetVisitedCount: s.visitedMu.RLock()
VisitedRLockCount ==
    /\ locks.visitedW = "none"
    /\ "count" \notin locks.visitedR
    /\ locks' = [locks EXCEPT !.visitedR = @ \cup {"count"}]
    /\ OtherThanLocks

\* GetVisitedCount: len(s.visited) and the deferred s.visitedMu.RUnlock()
CountRUnlock ==
    /\ "count" \in locks.visitedR
    /\ locks' = [locks EXCEPT !.visitedR = @ \ {"count"}]
    /\ OtherThanLocks

\* Run() is called and makes its semaphore
RunBegin ==
    /\ locks.pc = "idle"
    /\ locks' = [locks EXCEPT !.pc = "top", !.sem = 0]
    /\ OtherThanLocks

\* for len(s.queue) > 0
RunLoop ==
    /\ locks.pc = "top"
    /\ locks' = [locks EXCEPT
                    !.pc = IF Len(locks.queue) > 0 THEN "qlock" ELSE "wait"]
    /\ OtherThanLocks

\* s.queueMu.Lock()
QueueLockRun ==
    /\ locks.pc = "qlock"
    /\ locks.queueMu = "none"
    /\ locks' = [locks EXCEPT !.queueMu = "run", !.pc = "qheld"]
    /\ OtherThanLocks

\* the second look at the queue, the pop, and s.queueMu.Unlock()
PopUnlock ==
    /\ locks.pc = "qheld"
    /\ locks' = IF Len(locks.queue) = 0
                THEN [locks EXCEPT !.queueMu = "none", !.pc = "wait"]
                ELSE [locks EXCEPT !.cur = Head(locks.queue),
                                   !.queue = Tail(locks.queue),
                                   !.queueMu = "none", !.pc = "vrlock"]
    /\ OtherThanLocks

\* s.visitedMu.RLock()
VisitedRLockRun ==
    /\ locks.pc = "vrlock"
    /\ locks.visitedW = "none"
    /\ locks' = [locks EXCEPT !.visitedR = @ \cup {"run"}, !.pc = "vrheld"]
    /\ OtherThanLocks

\* visited := s.visited[currentURL]; s.visitedMu.RUnlock(); if visited { continue }
ReadRUnlock ==
    /\ locks.pc = "vrheld"
    /\ locks' = [locks EXCEPT
                    !.visitedR = @ \ {"run"},
                    !.cur = IF locks.cur \in locks.visited THEN "" ELSE @,
                    !.pc = IF locks.cur \in locks.visited THEN "top"
                           ELSE "vlock"]
    /\ OtherThanLocks

\* s.visitedMu.Lock()
VisitedLockRun ==
    /\ locks.pc = "vlock"
    /\ locks.visitedW = "none"
    /\ locks.visitedR = {}
    /\ locks' = [locks EXCEPT !.visitedW = "run", !.pc = "vheld"]
    /\ OtherThanLocks

\* an Unlock that is deferred: the write lock is kept to the end of Run()
MarkKeepsLock ==
    /\ locks.pc = "vheld"
    /\ locks' = [locks EXCEPT !.visited = @ \cup {locks.cur}, !.pc = "sem"]
    /\ OtherThanLocks

\* s.visited[currentURL] = true; s.visitedMu.Unlock()
MarkUnlock ==
    /\ locks.pc = "vheld"
    /\ locks' = [locks EXCEPT !.visited = @ \cup {locks.cur},
                              !.visitedW = "none", !.pc = "sem"]
    /\ OtherThanLocks

\* sem <- struct{}{}, which blocks while the channel is full
SemSend ==
    /\ locks.pc = "sem"
    /\ SendReady(locks.sem, TheSpider.concurrency)
    /\ locks' = [locks EXCEPT !.sem = @ + 1, !.pc = "go"]
    /\ OtherThanLocks

\* s.wg.Add(1); go func(url string) {...}(currentURL)
GoWorker ==
    /\ locks.pc = "go"
    /\ locks' = [locks EXCEPT !.workers = @ (+) SetToBag({"fetch"}),
                              !.cur = "", !.pc = "top"]
    /\ OtherThanLocks

\* s.wg.Wait(); return nil
WaitWorkers ==
    /\ locks.pc = "wait"
    /\ WaitReady(BagCardinality(locks.workers))
    /\ locks' = [locks EXCEPT !.pc = "idle"]
    /\ OtherThanLocks

\* a worker goes from position at to position to
WorkerMoves(at, to) ==
    /\ BagIn(at, locks.workers)
    /\ locks' = [locks EXCEPT
                    !.workers = (@ (-) SetToBag({at})) (+) SetToBag({to})]
    /\ OtherThanLocks

\* s.crawlURL(url) up to the response and the parse of its body
WorkerFetch(res) == WorkerMoves("fetch", IF res = "ok" THEN "handler" ELSE AfterCrawl(res))

\* s.onDocument(doc, urlStr)
WorkerHandler == WorkerMoves("handler", AfterCrawl("ok"))

\* time.Sleep(s.delay)
WorkerSleep == WorkerMoves("sleep", "release")

\* deferred: <-sem; s.wg.Done()
WorkerDone ==
    /\ BagIn("release", locks.workers)
    /\ locks' = [locks EXCEPT !.workers = @ (-) SetToBag({"release"}),
                              !.sem = @ - 1]
    /\ OtherThanLocks

NextLocks ==
    \/ \E u \in SpiderURLs : QueueLockAdd(u)
    \/ AppendUnlock
    \/ VisitedLockClear
    \/ ClearUnlock
    \/ VisitedRLockCount
    \/ CountRUnlock
    \/ RunBegin
    \/ RunLoop
    \/ QueueLockRun
    \/ PopUnlock
    \/ VisitedRLockRun
    \/ ReadRUnlock
    \/ VisitedLockRun
    \/ MarkUnlock
    \/ SemSend
    \/ GoWorker
    \/ WaitWorkers
    \/ \E res \in {"ok", "err"} : WorkerFetch(res)
    \/ WorkerHandler
    \/ WorkerSleep
    \/ WorkerDone

SpecLocks == InitLocks /\ [][NextLocks]_vars

\* ------------------------------------------------- RabbitMQClient.Consume
\* One call of Consume.  The broker numbers its deliveries 1, 2, ...;
\* consume.msgs is the content of the deliveries channel, consume.msg the
\* delivery in the hands of the handler, consume.ok and consume.errs the
\* deliveries for which the handler returned nil and an error, consume.acks
\* the deliveries on which Ack(false) was called and consume.nacks the
\* pairs <<delivery, requeue>> of the calls of Nack(false, requeue).
OtherThanConsume == UNCHANGED <<spider, crawl, validation, service, rabbit, locks, kafka>>

InitConsume ==
    /\ SpiderInit
    /\ crawl = NoCall
    /\ validation = NoValidation
    /\ service = NoService
    /\ rabbit = NoClient
    /\ locks = NoLocks
    /\ consume = NoConsume
    /\ kafka = NoKafka

\* r.channel.Consume(queue, "", false, ...), which may fail
ConsumeRegister(err) ==
    /\ consume.pc = "idle"
    /\ consume' = IF err
                  THEN [consume EXCEPT !.pc = "returned",
                                       !.ret = "register-error"]
                  ELSE [consume EXCEPT !.pc = "select"]
    /\ OtherThanConsume

\* the broker sends a delivery to the registered consumer
Deliver ==
    /\ consume.pc \notin {"idle"}
    /\ consume.ret # "register-error"
    /\ consume.open
    /\ consume.sent < MaxDeliveries
    /\ consume' = [consume EXCEPT !.sent = @ + 1,
                                  !.msgs = Append(@, consume.sent + 1)]
    /\ OtherThanConsume

\* the caller cancels the context
CancelContext ==
    /\ ~consume.ctxDone
    /\ consume' = [consume EXCEPT !.ctxDone = TRUE]
    /\ OtherThanConsume

\* the channel or the connection is closed: the library closes msgs
CloseDeliveries ==
    /\ consume.open
    /\ consume' = [consume EXCEPT !.open = FALSE]
    /\ OtherThanConsume

\* case <-ctx.Done(): return ctx.Err()
SelectDone ==
    /\ consume.pc = "select"
    /\ consume.ctxDone
    /\ consume' = [consume EXCEPT !.pc = "returned", !.ret = "ctx"]
    /\ OtherThanConsume

\* case msg, ok := <-msgs with ok true: the handler is called
SelectDelivery ==
    /\ consume.pc = "select"
    /\ consume.msgs # <<>>
    /\ consume' = [consume EXCEPT !.msg = Head(consume.msgs),
                                  !.msgs = Tail(consume.msgs),
                                  !.handled = @ + 1,
                                  !.pc = "handler"]
    /\ OtherThanConsume

\* case msg, ok := <-msgs with ok false: return "channel closed"
SelectClosed ==
    /\ consume.pc = "select"
    /\ consume.msgs = <<>>
    /\ ~consume.open
    /\ consume' = [consume EXCEPT !.pc = "returned", !.ret = "channel-closed"]
    /\ OtherThanConsume

\* handler(msg.Body) returns
ConsumeHandler(herr) ==
    /\ consume.pc = "handler"
    /\ consume' = IF herr
                  THEN [consume EXCEPT !.errs = @ \cup {consume.msg},
                                       !.res = "err", !.pc = "settle"]
                  ELSE [consume EXCEPT !.ok = @ \cup {consume.msg},
                                       !.res = "nil", !.pc = "settle"]
    /\ OtherThanConsume

\* an Ack on every path, before the Nack of a failed delivery
SettleAcksAll ==
    /\ consume.pc = "settle"
    /\ consume' = IF consume.res = "err"
                  THEN [consume EXCEPT
                           !.acks = @ \cup {consume.msg},
                           !.nacks = @ \cup {<<consume.msg, TRUE>>},
                           !.msg = 0, !.pc = "returned",
                           !.ret = "handler-error"]
                  ELSE [consume EXCEPT !.acks = @ \cup {consume.msg},
                                       !.msg = 0, !.pc = "select"]
    /\ OtherThanConsume

\* on an error msg.Nack(false, true) and the return of "handler error",
\* otherwise msg.Ack(false); the results of both are ignored
Settle ==
    /\ consume.pc = "settle"
    /\ consume' = IF consume.res = "err"
                  THEN [consume EXCEPT
                           !.nacks = @ \cup {<<consume.msg, TRUE>>},
                           !.msg = 0, !.pc = "returned",
                           !.ret = "handler-error"]
                  ELSE [consume EXCEPT !.acks = @ \cup {consume.msg},
                                       !.msg = 0, !.pc = "select"]
    /\ OtherThanConsume

NextConsume ==
    \/ \E err \in BOOLEAN : ConsumeRegister(err)
    \/ Deliver
    \/ CancelContext
    \/ CloseDeliveries
    \/ SelectDone
    \/ SelectDelivery
    \/ SelectClosed
    \/ \E herr \in BOOLEAN : ConsumeHandler(herr)
    \/ Settle

SpecConsume == InitConsume /\ [][NextConsume]_vars

\* ---------------------------------------------------- KafkaConsumer.Consume
\* One call of Consume.  The messages of the topic are numbered 1, 2, ... in
\* the order the reader fetches them; kafka.topic is the number of messages
\* produced so far, kafka.fetched the number fetched, kafka.msg the message
\* fetched last,
\* kafka.ok the messages for which the handler returned nil, kafka.commits
\* the messages handed to CommitMessages with success, in that order, and
\* kafka.atCancel the message that was in the hands of the handler when the
\* context was cancelled (0 if none was).  FetchMessage and CommitMessages
\* are calls of the kafka-go reader: each may fail at any time, and with a
\* cancelled context each may still succeed (the library chooses between
\* the context and its own channel).
OtherThanKafka == UNCHANGED <<spider, crawl, validation, service, rabbit, locks, consume>>

InitKafka ==
    /\ SpiderInit
    /\ crawl = NoCall
    /\ validation = NoValidation
    /\ service = NoService
    /\ rabbit = NoClient
    /\ locks = NoLocks
    /\ consume = NoConsume
    /\ kafka = NoKafka

\* Consume(ctx, handler) is called
KafkaConsume ==
    /\ kafka.pc = "idle"
    /\ kafka' = [kafka EXCEPT !.pc = "select"]
    /\ OtherThanKafka

\* KafkaProducer.Produce writes a message to the topic
Produce ==
    /\ kafka.topic < MaxFetch
    /\ kafka' = [kafka EXCEPT !.topic = @ + 1]
    /\ OtherThanKafka

\* the caller cancels the context
KafkaCancel ==
    /\ ~kafka.ctxDone
    /\ kafka' = [kafka EXCEPT
                    !.ctxDone = TRUE,
                    !.atCancel = IF kafka.pc = "handler" THEN kafka.msg ELSE 0]
    /\ OtherThanKafka

\* select { case <-ctx.Done(): return ctx.Err(); default: ... }
KafkaSelect ==
    /\ kafka.pc = "select"
    /\ kafka' = IF kafka.ctxDone
                THEN [kafka EXCEPT !.pc = "returned", !.ret = "ctx"]
                ELSE [kafka EXCEPT !.pc = "fetch"]
    /\ OtherThanKafka

\* msg, err := c.reader.FetchMessage(ctx), which blocks until the topic has
\* a message to fetch, or fails
FetchMessage(err) ==
    /\ kafka.pc = "fetch"
    /\ ~err => kafka.fetched < kafka.topic
    /\ kafka' = IF err
                THEN [kafka EXCEPT !.pc = "returned", !.ret = "fetch-error"]
                ELSE [kafka EXCEPT !.fetched = @ + 1,
                                   !.msg = kafka.fetched + 1,
                                   !.pc = "handler"]
    /\ OtherThanKafka

\* a handler error that is only noted: the message is committed all the same
KafkaHandlerCommits(herr) ==
    /\ kafka.pc = "handler"
    /\ kafka' = IF herr
                THEN [kafka EXCEPT !.pc = "commit"]
                ELSE [kafka EXCEPT !.ok = @ \cup {kafka.msg}, !.pc = "commit"]
    /\ OtherThanKafka

\* if err := handler(msg); err != nil { return "handler error" }
KafkaHandler(herr) ==
    /\ kafka.pc = "handler"
    /\ kafka' = IF herr
                THEN [kafka EXCEPT !.pc = "returned", !.ret = "handler-error"]
                ELSE [kafka EXCEPT !.ok = @ \cup {kafka.msg}, !.pc = "commit"]
    /\ OtherThanKafka

\* if err := c.reader.CommitMessages(ctx, msg); err != nil { return ... }
CommitMessages(err) ==
    /\ kafka.pc = "commit"
    /\ kafka' = IF err
                THEN [kafka EXCEPT !.pc = "returned", !.ret = "commit-error"]
                ELSE [kafka EXCEPT !.commits = Append(@, kafka.msg),
                                   !.pc = "select"]
    /\ OtherThanKafka

NextKafka ==
    \/ Produce
    \/ KafkaConsume
    \/ KafkaCancel
    \/ KafkaSelect
    \/ \E err \in BOOLEAN : FetchMessage(err)
    \/ \E herr \in BOOLEAN : KafkaHandler(herr)
    \/ \E err \in BOOLEAN : CommitMessages(err)

SpecKafka == InitKafka /\ [][NextKafka]_vars

\* ------------------------------------------------------------------ claims
\* the steps of Run() that belong to its dispatch loop
LoopPcs == {"loop", "pop", "read", "mark", "sem", "go"}

\* the steps of a worker at which it holds a slot of its Run()'s semaphore
HoldingPcs == {"crawl", "inflight", "handler", "sleep", "release"}

Holders(r) == {w \in Workers : w.run = r /\ w.pc \in HoldingPcs}

\* number of workers of r's Run() that hold a slot
InFlight(r) == BagCardinality([w \in Holders(r) |-> CopiesIn(w, workers)])

\* C1: every URL for which a worker sent the GET passes URL validation.
C1Claim == \A p \in BagToSet(fetches) : ValidateURL(p[1]) = "ok"

\* C2: within one session (the epoch in which the URL was claimed) no URL is
\* fetched more than once.
C2Claim == \A p \in BagToSet(fetches) : CopiesIn(p, fetches) <= 1

\* C3: at every moment of a Run() the number of its workers that hold a slot
\* of its semaphore is at most the concurrency limit the Run() was started with.
C3Inv == \A r \in Callers : InFlight(r) <= semCap[r]

\* C3: the limit binds: the limit is reached and the driver waits for a slot.
C3Witness ==
    \E r \in Callers :
        /\ pc[r] = "sem"
        /\ semCap[r] >= 1
        /\ InFlight(r) = semCap[r]

\* C4: at most one Run() is in the dispatch loop at any time.
C4Claim == Cardinality({r \in Callers : pc[r] \in LoopPcs}) <= 1

\* C5: a Run() called while another Run() is executing is rejected: its
\* caller does not get past the running check.
C5Claim ==
    [][\A r \in Callers :
          (pc[r] = "idle" /\ \E q \in Callers \ {r} : pc[q] # "idle")
              => pc'[r] = "idle"]_vars

\* C6: when Run() returns, the queue is empty.
C6Claim ==
    [][\A r \in Callers :
          (pc[r] = "ret" /\ pc'[r] = "idle") => queue' = <<>>]_vars

\* C7: Run() returns only when none of the workers it dispatched is left, and
\* when no Run() is executing IsRunning() is false.
C7Inv ==
    /\ \A r \in Callers :
          pc[r] \in {"ret", "idle"} => \A w \in Workers : w.run # r
    /\ (\A r \in Callers : pc[r] = "idle") => ~IsRunning

\* C7: Run() is waiting for a worker it dispatched whose GET is in flight.
C7Witness ==
    \E r \in Callers :
        /\ pc[r] = "wait"
        /\ \E w \in Workers : w.run = r /\ w.pc = "inflight"

\* C8: a Run() that got past the running check returns nil, and the driver is
\* never kept from a slot by a worker that has ended: when it waits for a slot
\* of a semaphore that has slots, a worker of its Run() still holds one.
C8Inv ==
    \A r \in Callers :
        /\ pc[r] = "ret" => ret[r] = "nil"
        /\ pc[r] \in LoopPcs \cup {"set", "wait"} => ret[r] = "none"
        /\ (pc[r] = "sem" /\ semCap[r] > 0 /\ ~SendReady(semCount[r], semCap[r]))
              => Holders(r) # {}

\* C8: a worker whose URL failed has given its slot back and the driver of
\* the same Run(), with a limit of one, has the slot for the next URL.
C8Witness ==
    \E r \in Callers :
        /\ pc[r] = "go"
        /\ semCap[r] = 1
        /\ \E w \in Workers : w.run = r /\ w.res = "err" /\ w.pc = "wgdone"

\* C9: once Stop() was called during a Run(), its loop pops no further URL.
C9Claim ==
    [][\A r \in Callers :
          (stopped[r] /\ pc[r] = "loop") => pc'[r] # "pop"]_vars

\* C10: the handler is invoked at most once for a URL in a session, and only
\* for a URL whose GET was sent.
C10Claim ==
    \A p \in BagToSet(handled) :
        CopiesIn(p, handled) <= 1 /\ CopiesIn(p, fetches) >= 1

\* the calls of crawlURL that got a response and are past the status check
PastStatus == crawl.status # 0 /\ crawl.pc \in {"parse", "handler", "done", "idle"}

\* C11 as stated: a status outside 2xx is a failure of the URL, without a
\* handler call and without another request; a status inside 2xx goes on to
\* the parse of the body.
C11Claim ==
    PastStatus =>
        IF crawl.status \in 200..299
        THEN crawl.err # "status"
        ELSE crawl.err = "status" /\ crawl.handlerCalls = 0 /\ crawl.requests = 1

\* C11, amended: a status other than 200 is a failure of the URL, without a
\* handler call and without another request; the status 200 goes on to the
\* parse of the body, and the handler is called at most once, only after it.
C11Inv ==
    /\ PastStatus =>
          IF crawl.status = StatusOK
          THEN crawl.err # "status"
          ELSE crawl.err = "status" /\ crawl.handlerCalls = 0 /\ crawl.requests = 1
    /\ crawl.handlerCalls > 0 => crawl.status = StatusOK /\ crawl.parses
    /\ crawl.handlerCalls <= 1 /\ crawl.requests <= 1

\* C11: a call got the 2xx status 204 and returned the status error.
C11Witness ==
    /\ crawl.pc = "done"
    /\ crawl.status = 204
    /\ crawl.err = "status"
    /\ crawl.handlerCalls = 0

\* C12: when a Run() is at its return on a Spider whose visited set was empty
\* at construction and has not been cleared, and no other Run() is between
\* its pop and its mark, GetVisitedCount() is the number of distinct URLs
\* taken from the queue, whatever became of their fetches.
C12Inv ==
    \A r \in Callers :
        /\ pc[r] = "ret"
        /\ epoch = 0
        /\ \A q \in Callers : pc[q] \notin {"read", "mark"}
        => GetVisitedCount = Cardinality(popped)

\* C12: a Run() is at its return after taking two distinct URLs from the
\* queue, the document of at least one of which never reached the handler.
C12Witness ==
    \E r \in Callers :
        /\ pc[r] = "ret"
        /\ epoch = 0
        /\ Cardinality(popped) = 2
        /\ BagCardinality(fetches) = 2
        /\ BagCardinality(handled) <= 1

\* C13: a ClearVisited() step leaves GetVisitedCount() at 0, and no URL that
\* was marked before it is still marked after it, so that the visited check
\* of Run() lets each of them through again.
C13Prop ==
    [][epoch' = epoch + 1 =>
          /\ GetVisitedCount' = 0
          /\ \A u \in visited : u \notin visited']_vars

\* C13: a URL that was claimed and fetched before a clear has been claimed
\* and fetched again after it.
C13Witness ==
    \E u \in SpiderURLs :
        /\ epoch = 1
        /\ <<u, 0>> \in BagToSet(fetches)
        /\ <<u, 1>> \in BagToSet(fetches)

\* C19: of the Run() loops that are past the visited check with the same
\* URL in hand, having found it unclaimed, there is at most one.
C19Claim ==
    \A r1, r2 \in Callers :
        (pc[r1] = "mark" /\ pc[r2] = "mark" /\ cur[r1] = cur[r2]) => r1 = r2

\* C20: the slots taken from a Run()'s semaphore are those of its workers
\* that have not yet released (and the one of the driver about to start a
\* worker), the in-flight counter is the number of workers that have not
\* yet called Done, and at the return of Run() its semaphore is empty and
\* none of its workers is left.
C20Inv ==
    /\ \A r \in Callers :
          semCount[r] = InFlight(r) + (IF pc[r] = "go" THEN 1 ELSE 0)
    /\ wg = BagCardinality(workers)
    /\ \A r \in Callers :
          pc[r] = "ret" =>
              /\ semCount[r] = 0
              /\ \A w \in Workers : w.run # r
              /\ (\A q \in Callers \ {r} : pc[q] = "idle") => wg = 0

\* C20: a Run() is at its return after two workers, the document of one of
\* which did not reach the handler while that of the other did.
C20Witness ==
    \E r \in Callers :
        /\ pc[r] = "ret"
        /\ semCount[r] = 0
        /\ wg = 0
        /\ BagCardinality(fetches) = 2
        /\ BagCardinality(handled) = 1

\* the URL under validation, as url.Parse sees it
TheURL == ParseURL(validation.rawURL)

\* the addresses the validator is to refuse: loopback, the private ranges
\* 10/8, 172.16/12, 192.168/16 and fc00::/7, link-local 169.254/16 and
\* fe80::/10, and multicast 224/4 and ff00::/8
Refused(ip) ==
    IF Len(ip) = 4
    THEN \/ ip[1] = 127
         \/ ip[1] = 10
         \/ ip[1] = 172 /\ ip[2] >= 16 /\ ip[2] <= 31
         \/ ip[1] = 192 /\ ip[2] = 168
         \/ ip[1] = 169 /\ ip[2] = 254
         \/ ip[1] >= 224 /\ ip[1] <= 239
    ELSE \/ ip = <<0, 0, 0, 0, 0, 0, 0, 1>>
         \/ ip[1] \div 512 = 126
         \/ ip[1] \div 64 = 1018
         \/ ip[1] \div 256 = 255

\* C14: libs.Validator.ValidateURL rejects a URL that is empty or malformed,
\* whose scheme is not http or https, whose host is empty, whose host does
\* not resolve, or one of whose resolved addresses is loopback, private,
\* link-local or multicast.
C14Inv ==
    (/\ validation.libs # "none"
     /\ \/ validation.rawURL = ""
        \/ ~TheURL.ok
        \/ TheURL.scheme \notin {"http", "https"}
        \/ TheURL.hostname = ""
        \/ ~LookupIP(TheURL.hostname).ok
        \/ \E ip \in LookupIP(TheURL.hostname).ips : Refused(ip))
    => validation.libs # "ok"

\* C14: a URL whose host resolves to a public and to a private address was
\* rejected for the private one.
C14Witness ==
    /\ validation.rawURL = "http://multi.example.com/"
    /\ validation.libs = "blocked-ip"

\* the localhost aliases of the denylist
LocalhostAliases == {"localhost", "127.0.0.1", "::1", "0.0.0.0", "::"}

\* C15: each of the two validators accepts an http or https URL whose host
\* is not empty and not a localhost alias and whose resolved addresses are
\* all public.
C15Claim ==
    (/\ TheURL.ok
     /\ TheURL.scheme \in {"http", "https"}
     /\ TheURL.hostname # ""
     /\ ToLower(TheURL.hostname) \notin LocalhostAliases
     /\ LookupIP(TheURL.hostname).ok
     /\ \A ip \in LookupIP(TheURL.hostname).ips : ~Refused(ip))
    => /\ validation.libs \in {"none", "ok"}
       /\ validation.crawlers \in {"none", "ok"}

\* C16: each of the two validators rejects an http or https URL whose
\* lower-cased hostname is a localhost alias, and the validator that
\* resolves names does so for that reason, not for what the name resolves to.
C16Claim ==
    (/\ TheURL.ok
     /\ TheURL.scheme \in {"http", "https"}
     /\ ToLower(TheURL.hostname) \in LocalhostAliases)
    => /\ validation.libs \in {"none", "is-localhost"}
       /\ validation.crawlers \notin {"ok"}

\* C17: a call of CrawlAndStore(url) to which the cache reported, without an
\* error, that the key page:<url> exists goes from the lookup to its return:
\* it returns nil and has visited nothing, created no row and written no key.
C17Inv ==
    (service.hasCache /\ service.cached /\ ~service.err /\ service.calls > 0)
    => /\ service.key = "page:" \o service.url
       /\ service.pc \in {"done", "idle"}
       /\ service.ret = "nil"
       /\ service.visits = 0
       /\ service.created = 0
       /\ service.writes = 0

\* C17: the second call for a URL is a cache hit, after the first call
\* visited the URL, created its row and wrote its key.
C17Witness ==
    /\ service.calls = 2
    /\ service.pc = "done"
    /\ service.cached
    /\ service.rows = <<service.url>>
    /\ service.visits = 0

\* C18: when Close() has returned, the channel and the connection of the
\* client are both closed, whether or not closing the channel failed.
C18Claim ==
    rabbit.pc = "returned" =>
        rabbit.channel \notin rabbit.chans /\ IsClosed

\* the entries that are still in the queue
Queued == {ledger.order[k] : k \in 1..Len(ledger.order)}

\* C21: the workers of one Run() are started in the order in which their
\* URLs were appended: the entry a Run() pops, and the entry for which it
\* starts a worker, was appended before every entry still in the queue, and
\* the Run() has a single entry in hand from the pop to the start of its
\* worker; so the entry of each worker it starts was appended after the
\* entries of the workers it started before (when a worker ends is not
\* constrained).
C21Prop ==
    [][\A r \in Callers :
          /\ (pc[r] = "pop" /\ pc'[r] = "read")
                => /\ ledger.hand[r] = 0
                   /\ ledger'.hand[r] = Head(ledger.order)
                   /\ \A i \in Queued' : ledger'.hand[r] < i
          /\ (pc[r] = "go" /\ pc'[r] = "loop")
                => /\ ledger.hand[r] # 0
                   /\ \A i \in Queued : ledger.hand[r] < i
                   /\ ledger'.starts[ledger.hand[r]] = 1
                   /\ ledger'.hand[r] = 0
          /\ (pc[r] \in {"read", "mark", "sem", "go"} /\ pc'[r] = pc[r])
                => ledger'.hand[r] = ledger.hand[r]]_vars

\* the second entry's worker was started while the first entry's worker,
\* started by the same Run(), had not yet ended
C21Witness ==
    /\ ledger.starts = <<1, 1>>
    /\ ledger.hand[1] = 0
    /\ BagCardinality(workers) = 2
    /\ \A w \in Workers : w.run = 1

C24Claim ==
    \A r \in Callers :
        (pc[r] \in LoopPcs \cup {"wait", "ret"} \/ InFlight(r) > 0)
            => IsRunning

\* C25: a GET is sent only for a URL that is marked visited, and never for a
\* URL for which a GET was already sent since the last ClearVisited() before
\* its mark: neither a failed fetch nor the end of a Run() makes a URL
\* fetchable again.
C25Claim ==
    [][\A p \in BagToSet(fetches') :
          CopiesIn(p, fetches') > CopiesIn(p, fetches)
              => /\ CopiesIn(p, fetches) = 0
                 /\ p[2] = epoch => p[1] \in visited]_vars

\* C23: whatever concurrency was set, a Run() that has entered its loop
\* returns in the end (its fetches and handlers come to an end and the queue
\* is finite): the driver does not wait for a slot for ever.
C23Claim == (pc[1] \in LoopPcs) ~> (pc[1] = "ret")

\* C27: a SetConcurrency during a Run() leaves that Run()'s bound alone: the
\* capacity of a Run()'s semaphore is the concurrency read when the Run()
\* started, no later step changes it, the workers of the Run() that hold a
\* slot never exceed it, and a Run() that starts takes the value set last.
C27Prop ==
    [][\A r \in Callers :
          /\ (pc[r] = "set" /\ pc'[r] = "loop") => semCap'[r] = concurrency
          /\ pc[r] # "set" => semCap'[r] = semCap[r]
          /\ (pc[r] = "sem" /\ pc'[r] = "go") => semCount[r] < semCap[r]
          /\ InFlight(r)' <= semCap'[r]]_vars

\* the concurrency was set to 0 during a Run() that started with 1, and the
\* Run() has started its second worker, the first one being past its release
C27Witness ==
    /\ pc[1] \in LoopPcs
    /\ semCap[1] = 1
    /\ concurrency = 0
    /\ ledger.starts = <<1, 1>>
    /\ InFlight(1) = 1
    /\ BagCardinality(workers) = 2

\* C28: CrawlAndStore writes the key page:<url> to the cache only after it
\* has created the row of that url in this call, and a call in which Create
\* failed has the database error as its result and has written no key.
C28Prop ==
    [][/\ \A k \in service'.cache \ service.cache :
             /\ k = CacheKey(service.url)
             /\ service.created = 1
             /\ service.rows # <<>>
             /\ service.rows[Len(service.rows)] = service.url
             /\ service'.rows = service.rows
       /\ service'.ret = "db-error"
             => /\ service'.writes = 0
                /\ service'.created = 0
                /\ service'.cache = service.cache
                /\ service'.pc \in {"done", "idle"}]_vars

\* one call stored its page and wrote its key; the next call, for the other
\* URL, failed in Create and is about to return, and the cache has no key
\* for its URL
C28Witness ==
    /\ service.calls = 2
    /\ service.pc = "done"
    /\ service.ret = "db-error"
    /\ Len(service.rows) = 1
    /\ service.rows[1] # service.url
    /\ service.cache = {CacheKey(service.rows[1])}

\* C22: the goroutine of Run() holds queueMu only between its Lock and the
\* pop, the read side of visitedMu only for the read of the visited map and
\* the write side only for the mark: it holds neither lock while it waits
\* for a slot of the semaphore, starts a worker or waits for the workers,
\* and no worker holds a lock at any time, so neither while it fetches, runs
\* the handler or sleeps.
C22Inv ==
    /\ locks.queueMu = "run" => locks.pc = "qheld"
    /\ "run" \in locks.visitedR => locks.pc = "vrheld"
    /\ locks.visitedW = "run" => locks.pc = "vheld"
    /\ locks.queueMu \in {"none", "run", "add"}
    /\ locks.visitedW \in {"none", "run", "clear"}
    /\ locks.visitedR \subseteq {"run", "count"}
    /\ locks.visitedW # "none" => locks.visitedR = {}

\* Run() is blocked on the full semaphore while a worker fetches, and at
\* that moment AddStartURL holds queueMu and GetVisitedCount reads the map
C22Witness ==
    /\ locks.pc = "sem"
    /\ locks.sem = TheSpider.concurrency
    /\ BagIn("fetch", locks.workers)
    /\ locks.queueMu = "add"
    /\ locks.visitedR = {"count"}

\* the deliveries on which Nack was called
Nacked == {n[1] : n \in consume.nacks}

\* C29: Ack is called on a delivery only if its handler returned nil and
\* Nack only if it returned an error, always with requeue; once Consume is
\* past the call, the acked deliveries are exactly those whose handler
\* returned nil and the nacked ones exactly those whose handler failed; no
\* delivery is both; and after a handler error Consume calls no handler
\* again and returns the handler error.
C29Prop ==
    [][/\ consume'.acks \subseteq consume'.ok
       /\ Nacked' \subseteq consume'.errs
       /\ \A n \in consume'.nacks : n[2] = TRUE
       /\ consume'.acks \cap Nacked' = {}
       /\ consume'.pc # "settle"
             => consume'.acks = consume'.ok /\ Nacked' = consume'.errs
       /\ consume.errs # {}
             => /\ consume'.handled = consume.handled
                /\ consume'.errs = consume.errs
                /\ consume'.pc \in {"settle", "returned"}
                /\ consume'.pc = "returned"
                      => consume'.ret = "handler-error"]_vars

\* the first delivery was acked, the second one failed and was nacked, and
\* Consume has returned while a third delivery waits in the channel
C29Witness ==
    /\ consume.pc = "returned"
    /\ consume.ret = "handler-error"
    /\ consume.acks = {1}
    /\ consume.nacks = {<<2, TRUE>>}
    /\ consume.msgs = <<3>>

\* the messages that were committed
Committed == {kafka.commits[i] : i \in 1..Len(kafka.commits)}

\* C30, as stated: a message is committed only after its handler returned
\* nil, the commits are in the order of the fetches, and when Consume has
\* returned, neither the message whose handler failed nor the message that
\* was being handled when the context was cancelled is committed.
C30Claim ==
    /\ Committed \subseteq kafka.ok
    /\ \A i \in 1..Len(kafka.commits) : kafka.commits[i] = i
    /\ kafka.pc = "returned"
          => /\ kafka.ret = "handler-error" => kafka.msg \notin Committed
             /\ kafka.atCancel \notin Committed

\* C30, amended: a message is committed only after its handler returned nil
\* and never while it is in the hands of the handler, the commits are in the
\* order of the fetches without a gap, and Consume returns with the message
\* fetched last not committed exactly when that message's handler failed or
\* its CommitMessages failed; when Consume returns the context error or a
\* fetch error every fetched message is committed, the one that was being
\* handled when the context was cancelled included.
C30Inv ==
    /\ Committed \subseteq kafka.ok
    /\ \A i \in 1..Len(kafka.commits) : kafka.commits[i] = i
    /\ kafka.pc = "handler" => kafka.msg \notin Committed
    /\ kafka.pc = "returned"
          => /\ kafka.ret = "handler-error"
                   => kafka.msg \notin Committed /\ kafka.msg \notin kafka.ok
             /\ kafka.ret = "commit-error"
                   => kafka.msg \notin Committed /\ kafka.msg \in kafka.ok
             /\ kafka.ret \in {"ctx", "fetch-error"}
                   => Len(kafka.commits) = kafka.fetched

\* the context was cancelled while the handler had the second message; the
\* handler returned nil, the message was committed, and Consume returned
\* the context error at its next look at the context
C30Witness ==
    /\ kafka.pc = "returned"
    /\ kafka.ret = "ctx"
    /\ kafka.atCancel = 2
    /\ kafka.commits = <<1, 2>>
====
